---- MODULE Spec2Model ----
(***************************************************************************)
(* A model of testrunner's test-output interpretation and failure          *)
(* correlation pipeline: LLMOutputParser (llm/parser.py), FailureAnalyzer  *)
(* (llm/analyzer.py), the `run` command (cli.py), the LLM clients          *)
(* (llm/base.py, llm/ollama.py, llm/openrouter.py) and the Database        *)
(* (storage/database.py).                                                  *)
(*                                                                         *)
(* Python values that come from the interpreter's JSON are kept with their *)
(* dynamic type (a tagged value), because the code does not validate them  *)
(* and its behaviour depends on the type (None.lower(), int("fast"), ...). *)
(* A Python exception is the record Raise; a normal result is Ok(v).       *)
(***************************************************************************)
EXTENDS Integers, Sequences, FiniteSets, TLC

VARIABLES
    stdout, stderr, exit_code,  \* the raw execution given to the classifier
    reply,                      \* the interpreter's structured result for it
    last,                       \* the last call of LLMOutputParser.parse
    earlier,                    \* the first call before it that returned the fallback
    test_results, git_changes,  \* the arguments of the correlator
    corr,                       \* the call of FailureAnalyzer made on them
    run,                        \* the `run` command: its position and effects
    transport,                  \* what the network does with the next request
    client,                     \* the last call made on an LLMClient
    db,                         \* the Database: results and test history rows
    prompts                     \* the last prompt built and the sizes of its inputs

vars == <<stdout, stderr, exit_code, reply, last, earlier, test_results, git_changes, corr, run,
          transport, client, db, prompts>>

classifierVars == <<stdout, stderr, exit_code, reply, last, earlier>>
correlatorVars == <<test_results, git_changes, corr>>
pipelineVars == <<classifierVars, correlatorVars, run>>
\* the variables the classifier, the correlator and `run` never touch
otherVars == <<transport, client, db, prompts>>

(***************************************************************************)
(* Bounds of the model.                                                    *)
(***************************************************************************)
\* stdout is the concatenation of at most MaxAtoms atoms (words and symbols)
MaxAtoms == 2
\* the interpreter's "tests" list has at most MaxTests items
MaxTests == 2
\* analyze_multiple is given at most MaxOutcomes test results
MaxOutcomes == 2

(***************************************************************************)
(* JSON / Python values, tagged with their dynamic type.                   *)
(*   t = "missing": the key is absent from the dict                        *)
(*   t = "null":    None                                                   *)
(*   t = "str":     a str, s                                               *)
(*   t = "num":     an int, n                                              *)
(*   t = "float":   a float, n in hundredths (150 is 1.5)                  *)
(***************************************************************************)
Missing == [t |-> "missing", s |-> "", n |-> 0]
Null == [t |-> "null", s |-> "", n |-> 0]
Str(x) == [t |-> "str", s |-> x, n |-> 0]
Num(k) == [t |-> "num", s |-> "", n |-> k]
Flt(h) == [t |-> "float", s |-> "", n |-> h]

\* dict.get(key, default): the default only replaces an absent key
Get(v, default) == IF v.t = "missing" THEN default ELSE v

\* Python truthiness of a value: None, "", 0 and 0.0 are falsy
Truthy(v) ==
    CASE v.t = "missing" -> FALSE
      [] v.t = "null" -> FALSE
      [] v.t = "str" -> v.s # ""
      [] OTHER -> v.n # 0

\* `v or ""`
OrEmpty(v) == IF Truthy(v) THEN v ELSE Str("")

\* the outcome of an expression that may raise
Raise == [ok |-> FALSE]
Ok(v) == [ok |-> TRUE, val |-> v]

\* integer division truncating toward zero, as int() of a float does
TruncDiv(a, b) == IF a >= 0 THEN a \div b ELSE -((-a) \div b)

\* int(v): ValueError for a non-numeric str, TypeError for None
PyInt(v) ==
    CASE v.t = "num" -> Ok(v.n)
      [] v.t = "float" -> Ok(TruncDiv(v.n, 100))
      [] v.t = "str" /\ v.s = "12" -> Ok(12)
      [] OTHER -> Raise

\* float(v), in hundredths
PyFloat(v) ==
    CASE v.t = "num" -> Ok(v.n * 100)
      [] v.t = "float" -> Ok(v.n)
      [] v.t = "str" /\ v.s = "0.7" -> Ok(70)
      [] OTHER -> Raise

(***************************************************************************)
(* Text: a sequence of characters.  The characters that matter to the      *)
(* fallback's regular expressions are letters (word characters), the       *)
(* symbols U+2713 (check mark), U+2717 (ballot x), U+25CB (circle), the    *)
(* space and the newline (all non-word characters).                        *)
(***************************************************************************)
UpperLetters == <<"A", "D", "E", "F", "I", "K", "L", "O", "P", "R", "S">>
LowerLetters == <<"a", "d", "e", "f", "i", "k", "l", "o", "p", "r", "s">>

Range(f) == {f[i] : i \in DOMAIN f}

\* \w of Python's re for str patterns, on the model's alphabet
WordChars == Range(UpperLetters) \cup Range(LowerLetters) \cup {"x", "t", "m", "u", "c", "n"}

IsWordChar(c) == c \in WordChars

\* case folding of re.IGNORECASE
LowerOf ==
    [c \in Range(UpperLetters) |->
        LowerLetters[CHOOSE i \in DOMAIN UpperLetters : UpperLetters[i] = c]]

LowerChar(c) == IF c \in DOMAIN LowerOf THEN LowerOf[c] ELSE c

\* \b at the gap before position i (1-based; i = Len(s)+1 is the end)
WordBoundary(s, i) ==
    LET before == i > 1 /\ IsWordChar(s[i - 1])
        after == i <= Len(s) /\ IsWordChar(s[i])
    IN before # after

\* \b tok \b matches at position i, ignoring case
MatchAt(s, i, tok) ==
    /\ i + Len(tok) - 1 <= Len(s)
    /\ \A k \in 1..Len(tok) : LowerChar(s[i + k - 1]) = LowerChar(tok[k])
    /\ WordBoundary(s, i)
    /\ WordBoundary(s, i + Len(tok))

\* len(re.findall(r'\b(alt1|alt2|...)\b', s[i:], re.IGNORECASE)): leftmost
\* non-overlapping matches, the first alternative that matches wins
RECURSIVE CountMatches(_, _, _)
CountMatches(s, i, alts) ==
    IF i > Len(s) THEN 0
    ELSE LET hits == {j \in DOMAIN alts : MatchAt(s, i, alts[j])}
         IN IF hits = {} THEN CountMatches(s, i + 1, alts)
            ELSE LET j == CHOOSE h \in hits : \A g \in hits : h <= g
                 IN 1 + CountMatches(s, i + Len(alts[j]), alts)

CheckMark == "U+2713"
BallotX == "U+2717"
Circle == "U+25CB"
Newline == "\n"

PassedTokens == << <<"P","A","S","S">>, <<"P","A","S","S","E","D">>, <<"O","K">>, <<CheckMark>> >>
FailedTokens == << <<"F","A","I","L">>, <<"F","A","I","L","E","D">>, <<"E","R","R","O","R">>,
                   <<"F","A","I","L","E","D">>, <<BallotX>> >>
SkippedTokens == << <<"S","K","I","P">>, <<"S","K","I","P","P","E","D">>, <<Circle>> >>

(***************************************************************************)
(* TestStatus, TestResult, ParsedTestOutput.                               *)
(***************************************************************************)
TestStatus == {"passed", "failed", "skipped", "error"}

TestResult(name, file, status, duration, error) ==
    [test_name |-> name, test_file |-> file, status |-> status,
     duration_ms |-> duration, error_message |-> error]

\* parse_confidence, in tenths
LLM_CONFIDENCE == 10
FALLBACK_CONFIDENCE == 3

ParsedTestOutput(tests, total, passed, failed, skipped, duration, raw, confidence) ==
    [tests |-> tests, total |-> total, passed |-> passed, failed |-> failed,
     skipped |-> skipped, duration_ms |-> duration, raw_output |-> raw,
     parse_confidence |-> confidence]

\* _fallback_parse without the forced-failure rule of lines 314-316
fallback_parse_unforced(out, err, code) ==
    LET combined == out \o <<Newline>> \o err
        passed == CountMatches(combined, 1, PassedTokens)
        failed == CountMatches(combined, 1, FailedTokens)
        skipped == CountMatches(combined, 1, SkippedTokens)
    IN ParsedTestOutput(<< >>, Num(passed + failed + skipped), Num(passed), Num(failed),
                        Num(skipped), Num(0), combined, FALLBACK_CONFIDENCE)

\* _fallback_parse that keeps the dataclass default parse_confidence = 1.0
fallback_parse_default_confidence(out, err, code) ==
    LET o == fallback_parse_unforced(out, err, code)
        failed == IF code # 0 /\ o.failed.n = 0 THEN 1 ELSE o.failed.n
    IN [o EXCEPT !.failed = Num(failed),
                 !.total = Num(o.passed.n + failed + o.skipped.n),
                 !.parse_confidence = LLM_CONFIDENCE]

\* LLMOutputParser._fallback_parse
fallback_parse(out, err, code) ==
    LET combined == out \o <<Newline>> \o err
        passed == CountMatches(combined, 1, PassedTokens)
        found == CountMatches(combined, 1, FailedTokens)
        skipped == CountMatches(combined, 1, SkippedTokens)
        failed == IF code # 0 /\ found = 0 THEN 1 ELSE found
        total == passed + failed + skipped
    IN ParsedTestOutput(<< >>, Num(total), Num(passed), Num(failed), Num(skipped),
                        Num(0), combined, FALLBACK_CONFIDENCE)

(***************************************************************************)
(* The interpreter's structured result for a classification, as            *)
(* generate_json hands it to the parser.                                   *)
(*   kind = "none":  generate_json returned None                           *)
(*   kind = "raise": generate_json raised                                  *)
(*   kind = "list":  it returned a non-empty JSON value that is no dict    *)
(*   kind = "dict":  it returned a dict with the keys "tests", "summary"   *)
(*                   (each possibly absent) and, if extra, some other key  *)
(***************************************************************************)
\* one element of "tests": a dict with these keys, or (kind "str") a string
Item(name, file, status, duration, error) ==
    [kind |-> "dict", name |-> name, file |-> file, status |-> status,
     duration_ms |-> duration, error_message |-> error]

NonDictItem ==
    [kind |-> "str", name |-> Missing, file |-> Missing, status |-> Missing,
     duration_ms |-> Missing, error_message |-> Missing]

Items ==
    { Item(Str("a"), Str("f.py"), Str("passed"), Num(7), Null),
      Item(Str("b"), Str("f.py"), Str("FAILED"), Num(0), Str("boom")),
      Item(Str("c"), Missing, Missing, Missing, Missing),
      Item(Str("d"), Missing, Str("skipped"), Flt(-370), Str("boom")),
      Item(Missing, Str("f.py"), Str("Passed"), Num(7), Str("boom")),
      Item(Str("f"), Str("f.py"), Str("flaky"), Num(7), Str("")),
      Item(Str("g"), Str("f.py"), Null, Num(7), Null),
      Item(Str("h"), Str("f.py"), Str("failed"), Str("fast"), Str("boom")),
      Item(Str("i"), Str("f.py"), Str("failed"), Null, Str("boom")),
      Item(Str("k"), Null, Str("error"), Str("12"), Num(42)),
      NonDictItem }

RECURSIVE ListsOfLen(_, _)
ListsOfLen(S, k) ==
    IF k = 0 THEN {<< >>}
    ELSE {<<x>> \o l : x \in S, l \in ListsOfLen(S, k - 1)}

ListsUpTo(S, n) == UNION {ListsOfLen(S, k) : k \in 0..n}

TestsMissing == [t |-> "missing", items |-> << >>]
TestsNull == [t |-> "null", items |-> << >>]
TestsList(l) == [t |-> "list", items |-> l]

Summary(total, passed, failed, skipped, duration) ==
    [t |-> "dict", total |-> total, passed |-> passed, failed |-> failed,
     skipped |-> skipped, duration_ms |-> duration]

SummaryMissing ==
    [t |-> "missing", total |-> Missing, passed |-> Missing, failed |-> Missing,
     skipped |-> Missing, duration_ms |-> Missing]

SummaryNull ==
    [t |-> "null", total |-> Missing, passed |-> Missing, failed |-> Missing,
     skipped |-> Missing, duration_ms |-> Missing]

Summaries ==
    { SummaryMissing,
      SummaryNull,
      Summary(Missing, Missing, Missing, Missing, Missing),
      Summary(Num(2), Num(1), Num(1), Num(0), Num(9)),
      Summary(Num(5), Num(1), Num(1), Num(0), Missing),
      Summary(Str("5"), Null, Num(0), Missing, Null) }

Response(kind, tests, summary, extra) ==
    [kind |-> kind, tests |-> tests, summary |-> summary, extra |-> extra]

ReturnsNone == Response("none", TestsMissing, SummaryMissing, FALSE)
Raises == Response("raise", TestsMissing, SummaryMissing, FALSE)
ReturnsList == Response("list", TestsMissing, SummaryMissing, FALSE)

DictResponses ==
    {Response("dict", tests, summary, FALSE) :
        tests \in {TestsMissing, TestsNull} \cup {TestsList(l) : l \in ListsUpTo(Items, MaxTests)},
        summary \in Summaries}
    \cup {Response("dict", TestsMissing, SummaryMissing, TRUE)}

\* `if response:` : None and {} are falsy, a non-empty list or dict is truthy
ResponseTruthy(r) ==
    \/ r.kind = "list"
    \/ r.kind = "dict" /\ (r.tests.t # "missing" \/ r.summary.t # "missing" \/ r.extra)

\* str.lower() on the status labels of the model
LowerLabel(s) ==
    CASE s = "FAILED" -> "failed"
      [] s = "Passed" -> "passed"
      [] OTHER -> s

\* the body of the loop of _convert_response_to_output: one TestResult per
\* item, or the exception the item makes the loop raise
convert_test(item) ==
    IF item.kind # "dict" THEN Raise
    ELSE LET label == Get(item.status, Str("error"))
         IN IF label.t # "str" THEN Raise
            ELSE LET status_str == LowerLabel(label.s)
                     status == IF status_str \in TestStatus THEN status_str ELSE "error"
                     duration == PyInt(Get(item.duration_ms, Num(0)))
                 IN IF ~duration.ok THEN Raise
                    ELSE Ok(TestResult(Get(item.name, Str("unknown")),
                                       Get(item.file, Str("")),
                                       status,
                                       duration.val,
                                       OrEmpty(item.error_message)))

\* _convert_response_to_output with the total recounted from the outcomes
convert_response_to_output_recounted(response, raw_output) ==
    IF response.kind # "dict" \/ response.tests.t = "null" THEN Raise
    ELSE LET items == response.tests.items
             conv == [i \in 1..Len(items) |-> convert_test(items[i])]
         IN IF \E i \in 1..Len(items) : ~conv[i].ok THEN Raise
            ELSE IF response.summary.t = "null" THEN Raise
            ELSE LET tests == [i \in 1..Len(items) |-> conv[i].val]
                     summary == response.summary
                 IN Ok(ParsedTestOutput(tests,
                                        Num(Len(tests)),
                                        Get(summary.passed, Num(0)),
                                        Get(summary.failed, Num(0)),
                                        Get(summary.skipped, Num(0)),
                                        Get(summary.duration_ms, Num(0)),
                                        raw_output,
                                        LLM_CONFIDENCE))

\* LLMOutputParser._convert_response_to_output
convert_response_to_output(response, raw_output) ==
    IF response.kind # "dict" \/ response.tests.t = "null" THEN Raise
    ELSE LET items == response.tests.items
             conv == [i \in 1..Len(items) |-> convert_test(items[i])]
         IN IF \E i \in 1..Len(items) : ~conv[i].ok THEN Raise
            ELSE IF response.summary.t = "null" THEN Raise
            ELSE LET tests == [i \in 1..Len(items) |-> conv[i].val]
                     summary == response.summary
                 IN Ok(ParsedTestOutput(tests,
                                        Get(summary.total, Num(Len(tests))),
                                        Get(summary.passed, Num(0)),
                                        Get(summary.failed, Num(0)),
                                        Get(summary.skipped, Num(0)),
                                        Get(summary.duration_ms, Num(0)),
                                        raw_output,
                                        LLM_CONFIDENCE))

(***************************************************************************)
(* LLMOutputParser.parse.  The result records, beside the returned         *)
(* ParsedTestOutput, whether an exception left parse, which return         *)
(* statement produced the output (via) and the calls made on the client.   *)
(***************************************************************************)
NoOutput == ParsedTestOutput(<< >>, Null, Null, Null, Null, Null, << >>, 0)

Returned(output, via, trace) ==
    [raised |-> FALSE, out |-> output, via |-> via, trace |-> trace]

Propagated(trace) ==
    [raised |-> TRUE, out |-> NoOutput, via |-> "none", trace |-> trace]

\* parse with _convert_response_to_output called outside the try block
parse_conversion_uncaught(out, err, code, available, response) ==
    IF ~available
    THEN Returned(fallback_parse(out, err, code), "fallback", <<"is_available">>)
    ELSE LET trace == <<"is_available", "generate_json">>
             fallback == Returned(fallback_parse(out, err, code), "fallback", trace)
         IN IF response.kind = "raise" THEN fallback
            ELSE IF ResponseTruthy(response)
            THEN LET conv == convert_response_to_output(response, out)
                 IN IF conv.ok THEN Returned(conv.val, "llm", trace) ELSE Propagated(trace)
            ELSE fallback

\* parse that asks the interpreter whatever the availability probe answered
parse_probe_ignored(out, err, code, available, response) ==
    LET trace == <<"is_available", "generate_json">>
        fallback == Returned(fallback_parse(out, err, code), "fallback", trace)
    IN IF response.kind = "raise" THEN fallback
       ELSE IF ResponseTruthy(response)
       THEN LET conv == convert_response_to_output(response, out)
            IN IF conv.ok THEN Returned(conv.val, "llm", trace) ELSE fallback
       ELSE fallback

\* parse whose exception handler leaves stderr out of the fallback
parse_handler_without_stderr(out, err, code, available, response) ==
    IF ~available
    THEN Returned(fallback_parse(out, err, code), "fallback", <<"is_available">>)
    ELSE LET trace == <<"is_available", "generate_json">>
             fallback == Returned(fallback_parse(out, err, code), "fallback", trace)
             handler == Returned(fallback_parse(out, << >>, code), "fallback", trace)
         IN IF response.kind = "raise" THEN handler
            ELSE IF ResponseTruthy(response)
            THEN LET conv == convert_response_to_output(response, out)
                 IN IF conv.ok THEN Returned(conv.val, "llm", trace) ELSE handler
            ELSE fallback

\* LLMOutputParser.parse; trace lists the calls made on the client
parse(out, err, code, available, response) ==
    IF ~available
    THEN Returned(fallback_parse(out, err, code), "fallback", <<"is_available">>)
    ELSE LET trace == <<"is_available", "generate_json">>
             fallback == Returned(fallback_parse(out, err, code), "fallback", trace)
         IN IF response.kind = "raise" THEN fallback
            ELSE IF ResponseTruthy(response)
            THEN LET conv == convert_response_to_output(response, out)
                 IN IF conv.ok THEN Returned(conv.val, "llm", trace) ELSE fallback
            ELSE fallback

(***************************************************************************)
(* FailureAnalyzer (llm/analyzer.py).                                      *)
(***************************************************************************)
FailureAnalysis(name, cause, file, commit, confidence, explanation, fix) ==
    [test_name |-> name, likely_cause |-> cause, suspected_file |-> file,
     suspected_commit |-> commit, confidence |-> confidence,
     explanation |-> explanation, suggested_fix |-> fix]

\* the interpreter's structured result for one failure: kind as for a
\* classification, and the keys of the analysis schema
AnalysisResponse(kind, cause, file, commit, confidence, explanation, fix) ==
    [kind |-> kind, likely_cause |-> cause, suspected_file |-> file,
     suspected_commit |-> commit, confidence |-> confidence,
     explanation |-> explanation, suggested_fix |-> fix]

AnalysisNone == AnalysisResponse("none", Missing, Missing, Missing, Missing, Missing, Missing)
AnalysisRaises == AnalysisResponse("raise", Missing, Missing, Missing, Missing, Missing, Missing)
AnalysisList == AnalysisResponse("list", Missing, Missing, Missing, Missing, Missing, Missing)

AnalysisResponses ==
    { AnalysisNone,
      AnalysisRaises,
      AnalysisList,
      AnalysisResponse("dict", Str("zero division"), Str("src/calc.py"), Str("abc123"),
                       Flt(85), Str("why"), Str("fix")),
      AnalysisResponse("dict", Str("unknown"), Null, Null, Flt(150), Missing, Missing),
      AnalysisResponse("dict", Str("typo"), Missing, Missing, Missing, Missing, Missing),
      AnalysisResponse("dict", Str("typo"), Missing, Missing, Str("high"), Missing, Missing) }

AnalysisTruthy(r) ==
    \/ r.kind = "list"
    \/ r.kind = "dict" /\ \E k \in {"likely_cause", "suspected_file", "suspected_commit",
                                    "confidence", "explanation", "suggested_fix"} :
                              r[k].t # "missing"

\* dict.get(key) without a default: None for an absent key
GetOrNone(v) == Get(v, Null)

\* a conversion that keeps the suspected file but loses the suspected commit
convert_response_to_analysis_no_commit(test_name, response) ==
    IF response.kind # "dict" THEN Raise
    ELSE LET confidence == PyFloat(Get(response.confidence, Flt(50)))
         IN IF ~confidence.ok THEN Raise
            ELSE Ok(FailureAnalysis(test_name,
                                    Get(response.likely_cause, Str("Unknown")),
                                    GetOrNone(response.suspected_file),
                                    Null,
                                    confidence.val,
                                    Get(response.explanation, Str("")),
                                    Get(response.suggested_fix, Str(""))))

\* _convert_response_to_analysis with 0.0 for an omitted confidence
convert_response_to_analysis_unsure(test_name, response) ==
    IF response.kind # "dict" THEN Raise
    ELSE LET confidence == PyFloat(Get(response.confidence, Flt(0)))
         IN IF ~confidence.ok THEN Raise
            ELSE Ok(FailureAnalysis(test_name,
                                    Get(response.likely_cause, Str("Unknown")),
                                    GetOrNone(response.suspected_file),
                                    GetOrNone(response.suspected_commit),
                                    confidence.val,
                                    Get(response.explanation, Str("")),
                                    Get(response.suggested_fix, Str(""))))

\* FailureAnalyzer._convert_response_to_analysis
convert_response_to_analysis(test_name, response) ==
    IF response.kind # "dict" THEN Raise
    ELSE LET confidence == PyFloat(Get(response.confidence, Flt(50)))
         IN IF ~confidence.ok THEN Raise
            ELSE Ok(FailureAnalysis(test_name,
                                    Get(response.likely_cause, Str("Unknown")),
                                    GetOrNone(response.suspected_file),
                                    GetOrNone(response.suspected_commit),
                                    confidence.val,
                                    Get(response.explanation, Str("")),
                                    Get(response.suggested_fix, Str(""))))

\* the change context of GitDiffAnalyzer.analyze, or None
NoGit == [given |-> FALSE, files |-> << >>, commits |-> << >>]
Git(files, commits) == [given |-> TRUE, files |-> files, commits |-> commits]

\* the prompt lists at most this many changed files and recent commits
MAX_PROMPT_FILES == 15
MAX_PROMPT_COMMITS == 10

Min(a, b) == IF a <= b THEN a ELSE b

\* seq[:n]
Prefix(seq, n) == SubSeq(seq, 1, Min(n, Len(seq)))

\* FailureAnalyzer._build_analysis_prompt: the parts of the prompt that come
\* from the arguments; error_message[:5000] raises TypeError unless the
\* message is a str
build_analysis_prompt(test_result, git) ==
    IF test_result.error_message.t # "str" THEN Raise
    ELSE Ok([test |-> test_result.test_name,
             file |-> IF Truthy(test_result.test_file) THEN test_result.test_file
                      ELSE Str("unknown"),
             error |-> test_result.error_message,
             files |-> IF git.given THEN Prefix(git.files, MAX_PROMPT_FILES) ELSE << >>,
             commits |-> IF git.given THEN Prefix(git.commits, MAX_PROMPT_COMMITS) ELSE << >>])

\* what one call of analyze did: the exception that left it or the value it
\* returned (None or a FailureAnalysis), and the calls it made on the client
AnalyzeNone(log) == [raised |-> FALSE, some |-> FALSE, log |-> log]
AnalyzeRaised(log) == [raised |-> TRUE, some |-> FALSE, log |-> log]
AnalyzeSome(a, log) == [raised |-> FALSE, some |-> TRUE, val |-> a, log |-> log]

\* analyze without the check of lines 82-84 for an empty error message
analyze_unchecked_message(test_result, git, available, response) ==
    IF ~available THEN AnalyzeNone(<<"is_available">>)
    ELSE LET prompt == build_analysis_prompt(test_result, git)
             log == <<"is_available", "generate_json">>
         IN IF ~prompt.ok THEN AnalyzeRaised(<<"is_available">>)
            ELSE IF response.kind = "raise" THEN AnalyzeNone(log)
            ELSE IF AnalysisTruthy(response)
            THEN LET conv == convert_response_to_analysis(test_result.test_name, response)
                 IN IF conv.ok THEN AnalyzeSome(conv.val, log) ELSE AnalyzeNone(log)
            ELSE AnalyzeNone(log)

\* FailureAnalyzer.analyze
analyze(test_result, git, available, response) ==
    IF ~available THEN AnalyzeNone(<<"is_available">>)
    ELSE IF ~Truthy(test_result.error_message) THEN AnalyzeNone(<<"is_available">>)
    ELSE LET prompt == build_analysis_prompt(test_result, git)
             log == <<"is_available", "generate_json">>
         IN IF ~prompt.ok THEN AnalyzeRaised(<<"is_available">>)
            ELSE IF response.kind = "raise" THEN AnalyzeNone(log)
            ELSE IF AnalysisTruthy(response)
            THEN LET conv == convert_response_to_analysis(test_result.test_name, response)
                 IN IF conv.ok THEN AnalyzeSome(conv.val, log) ELSE AnalyzeNone(log)
            ELSE AnalyzeNone(log)

\* what the Gateway does during the analysis of one test result
Behaviour(available, response) == [available |-> available, response |-> response]

Behaviours ==
    {Behaviour(FALSE, AnalysisNone)} \cup {Behaviour(TRUE, r) : r \in AnalysisResponses}

\* the state of the loop of analyze_multiple: the analyses accumulated, the
\* input position each came from, the client calls (tagged with the position)
\* and whether an exception left the loop
Tag(log, i) == [k \in 1..Len(log) |-> [op |-> log[k], at |-> i]]

LoopStart == [raised |-> FALSE, analyses |-> << >>, from |-> << >>, log |-> << >>]

\* FailureAnalyzer.analyze_multiple, from position i on
RECURSIVE analyze_loop(_, _, _, _, _)
analyze_loop(results, git, behaviours, i, acc) ==
    IF i > Len(results) THEN acc
    ELSE LET r == analyze(results[i], git, behaviours[i].available, behaviours[i].response)
             log == acc.log \o Tag(r.log, i)
         IN IF r.raised THEN [acc EXCEPT !.raised = TRUE, !.analyses = << >>,
                                         !.from = << >>, !.log = log]
            ELSE IF r.some
            THEN analyze_loop(results, git, behaviours, i + 1,
                              [acc EXCEPT !.analyses = Append(@, r.val),
                                          !.from = Append(@, i), !.log = log])
            ELSE analyze_loop(results, git, behaviours, i + 1, [acc EXCEPT !.log = log])

analyze_multiple(results, git, behaviours) ==
    analyze_loop(results, git, behaviours, 1, LoopStart)

\* _build_analysis_prompt with the lists of the change context cut in place
\* (del changed_files[15:]) instead of sliced
context_after_prompt_cut(git) ==
    IF git.given
    THEN Git(Prefix(git.files, MAX_PROMPT_FILES), Prefix(git.commits, MAX_PROMPT_COMMITS))
    ELSE git

\* the change context as _build_analysis_prompt leaves it (lines 154-179):
\* the dict and its entries are read with .get, the loops run over the
\* slices [:15] and [:10], which are new lists; nothing is assigned or removed
context_after_prompt(git) == git

\* the change context as analyze leaves it: the prompt is built when the
\* Gateway is available and the error message is not empty, and reads the
\* context after error_message[:5000] was evaluated
context_after_analyze(test_result, git, available) ==
    IF available /\ Truthy(test_result.error_message) /\ test_result.error_message.t = "str"
    THEN context_after_prompt(git)
    ELSE git

\* the change context as analyze_multiple leaves it: every call of analyze
\* is handed the same object; an exception of a call ends the loop
RECURSIVE context_after_loop(_, _, _, _)
context_after_loop(results, git, behaviours, i) ==
    IF i > Len(results) THEN git
    ELSE LET r == analyze(results[i], git, behaviours[i].available, behaviours[i].response)
             after == context_after_analyze(results[i], git, behaviours[i].available)
         IN IF r.raised THEN after
            ELSE context_after_loop(results, after, behaviours, i + 1)

(***************************************************************************)
(* The Gateway: LLMClient (llm/base.py) and its two providers,             *)
(* OllamaClient (llm/ollama.py) and OpenRouterClient (llm/openrouter.py).  *)
(*                                                                         *)
(* The content of a model response is a sequence of atoms: the code fence, *)
(* the word json, the newline, the space, the JSON tokens { and },         *)
(* k (a member "k": 1), true (a scalar), x (text that is no JSON) and [[   *)
(* (a nesting deeper than the JSON decoder's recursion limit).             *)
(***************************************************************************)
\* a model response holds at most MaxContent atoms (the fenced examples aside)
MaxContent == 3

\* the code fence (three backquotes)
Fence == "fence"
Deep == "[["

ContentAtoms == {Fence, "json", Newline, " ", "{", "}", "k", "true", "x", Deep}

RECURSIVE ContentsOfLen(_)
ContentsOfLen(k) ==
    IF k = 0 THEN {<< >>}
    ELSE {<<a>> \o c : a \in ContentAtoms, c \in ContentsOfLen(k - 1)}

FencedContents ==
    { <<Fence, "json", Newline, "{", "k", "}", Newline, Fence>>,
      <<Fence, "json", Newline, "{", "k", "}">>,
      <<Fence, Newline, "x", Newline, Fence, Newline>>,
      <<Fence, Newline, Deep, Newline, Fence>>,
      <<"x", " ", "{", "k", "}", " ", "x">>,
      <<"{", "k", "}", " ", "x", " ", "{", "k", "}">> }

ContentTexts == UNION {ContentsOfLen(k) : k \in 0..MaxContent} \cup FencedContents

\* the content of an LLMResponse: a str (text), or what a provider's body held
\* in its place (None, a number, a list)
Content(text) == [t |-> "str", text |-> text]
NonText(t) == [t |-> t, text |-> << >>]

ModelContents ==
    {Content(c) : c \in ContentTexts} \cup {NonText("null"), NonText("num"), NonText("list")}

\* LLMResponse: content, and the "error" entry of raw_response ("" when the
\* raw response is the provider's body)
LLMResponse(content, error) == [content |-> content, error |-> error]

\* LLMResponse.success: bool(content)
success(response) ==
    IF response.content.t = "str" THEN response.content.text # << >>
    ELSE response.content.t # "null"

\* what the network does with a request: a timeout, a non-2xx status, a
\* connection failure, a 2xx body that is no JSON, or a 2xx JSON body: an
\* object holding the content where the provider looks for it, an object
\* without it, an array, an object with "choices": [], an object with
\* "choices": [{"message": null}]
Transport(kind, shape, content) == [kind |-> kind, shape |-> shape, content |-> content]

NoTransport == Transport("none", "none", NonText("null"))
Timeout == Transport("timeout", "none", NonText("null"))
HttpError == Transport("http_error", "none", NonText("null"))
ConnectError == Transport("connect_error", "none", NonText("null"))
InvalidBody == Transport("invalid_body", "none", NonText("null"))
Body(shape, content) == Transport("body", shape, content)

Transports ==
    {Timeout, HttpError, ConnectError, InvalidBody}
    \cup {Body(shape, NonText("null")) :
            shape \in {"object_without_content", "array", "empty_choices", "null_message"}}
    \cup {Body("object", c) : c \in ModelContents}

Providers == {"ollama", "openrouter"}

GenerateRaised == [raised |-> TRUE, response |-> LLMResponse(Content(<< >>), "")]
GenerateReturned(response) == [raised |-> FALSE, response |-> response]

Failed(error) == GenerateReturned(LLMResponse(Content(<< >>), error))

\* the body is decoded as the provider's generate decodes it: the content, or
\* the exception that the decoding raises
decode_body(provider, t) ==
    CASE t.shape = "array" -> Raise
      [] t.shape = "object" -> Ok(t.content)
      [] t.shape = "object_without_content" -> Ok(Content(<< >>))
      [] provider = "ollama" -> Ok(Content(<< >>))
      [] OTHER -> Raise

\* generate without the handler of the last resort (except Exception)
generate_uncaught(provider, t) ==
    CASE t.kind = "timeout" -> Failed("Request timed out")
      [] t.kind = "http_error" -> Failed("HTTP error")
      [] t.kind = "connect_error" -> GenerateRaised
      [] t.kind = "invalid_body" -> GenerateRaised
      [] OTHER -> LET decoded == decode_body(provider, t)
                  IN IF decoded.ok THEN GenerateReturned(LLMResponse(decoded.val, ""))
                     ELSE GenerateRaised

\* OllamaClient.generate and OpenRouterClient.generate
generate(provider, t) ==
    CASE t.kind = "timeout" -> Failed("Request timed out")
      [] t.kind = "http_error" -> Failed("HTTP error")
      [] t.kind = "connect_error" -> Failed("exception")
      [] t.kind = "invalid_body" -> Failed("exception")
      [] OTHER -> LET decoded == decode_body(provider, t)
                  IN IF decoded.ok THEN GenerateReturned(LLMResponse(decoded.val, ""))
                     ELSE Failed("exception")

\* is_available of both providers: the status of a GET is 200, and every
\* exception is False
is_available(provider, t) == t.kind \in {"invalid_body", "body"}

IsSpace(a) == a \in {" ", Newline}

\* str.strip()
RECURSIVE Strip(_)
Strip(c) ==
    IF c = << >> THEN c
    ELSE IF IsSpace(Head(c)) THEN Strip(Tail(c))
    ELSE IF IsSpace(c[Len(c)]) THEN Strip(SubSeq(c, 1, Len(c) - 1))
    ELSE c

\* str.split("\n")
RECURSIVE SplitLines(_)
SplitLines(c) ==
    IF \A i \in 1..Len(c) : c[i] # Newline THEN <<c>>
    ELSE LET i == CHOOSE i \in 1..Len(c) : c[i] = Newline /\ \A j \in 1..(i - 1) : c[j] # Newline
         IN <<SubSeq(c, 1, i - 1)>> \o SplitLines(SubSeq(c, i + 1, Len(c)))

\* "\n".join(lines)
RECURSIVE JoinLines(_)
JoinLines(lines) ==
    IF lines = << >> THEN << >>
    ELSE IF Len(lines) = 1 THEN lines[1]
    ELSE lines[1] \o <<Newline>> \o JoinLines(Tail(lines))

\* lines 85-88: a content that starts with the fence loses its first line,
\* and its last line when that is the fence alone
strip_fence(content) ==
    IF content # << >> /\ content[1] = Fence
    THEN LET lines == SplitLines(content)
         IN JoinLines(IF lines[Len(lines)] = <<Fence>>
                      THEN SubSeq(lines, 2, Len(lines) - 1)
                      ELSE SubSeq(lines, 2, Len(lines)))
    ELSE content

JsonValue(kind, members) == [outcome |-> "value", kind |-> kind, members |-> members]
JSONDecodeError == [outcome |-> "JSONDecodeError", kind |-> "none", members |-> {}]
RecursionError == [outcome |-> "RecursionError", kind |-> "none", members |-> {}]

\* json.loads: whitespace around the tokens is skipped
json_loads(c) ==
    LET tokens == SelectSeq(c, LAMBDA a : ~IsSpace(a))
    IN CASE tokens = <<"true">> -> JsonValue("scalar", {})
         [] tokens = <<"{", "}">> -> JsonValue("dict", {})
         [] tokens = <<"{", "k", "}">> -> JsonValue("dict", {"k"})
         [] tokens # << >> /\ tokens[1] = Deep -> RecursionError
         [] OTHER -> JSONDecodeError

\* re.search(r"\{[\s\S]*\}", content): from the first { to the last }
brace_scan(c) ==
    LET opens == {i \in 1..Len(c) : c[i] = "{"}
        closes == {j \in 1..Len(c) : c[j] = "}"}
    IN IF opens = {} THEN Raise
       ELSE LET i == CHOOSE i \in opens : \A k \in opens : i <= k
                after == {j \in closes : j > i}
            IN IF after = {} THEN Raise
               ELSE Ok(SubSeq(c, i, CHOOSE j \in after : \A k \in after : k <= j))

JsonNone == [raised |-> FALSE, some |-> FALSE, value |-> JSONDecodeError]
JsonRaised == [raised |-> TRUE, some |-> FALSE, value |-> JSONDecodeError]
JsonSome(v) == [raised |-> FALSE, some |-> TRUE, value |-> v]

\* lines 90-102: the direct parse, then the brace scan; only JSONDecodeError
\* is handled
extract_json(content) ==
    LET direct == json_loads(content)
    IN CASE direct.outcome = "value" -> JsonSome(direct)
         [] direct.outcome = "RecursionError" -> JsonRaised
         [] OTHER -> LET json_match == brace_scan(content)
                     IN IF ~json_match.ok THEN JsonNone
                        ELSE LET scanned == json_loads(json_match.val)
                             IN CASE scanned.outcome = "value" -> JsonSome(scanned)
                                  [] scanned.outcome = "RecursionError" -> JsonRaised
                                  [] OTHER -> JsonNone

\* LLMClient.generate_json on the response that generate returned
generate_json(generated) ==
    IF generated.raised THEN JsonRaised
    ELSE IF ~success(generated.response) THEN JsonNone
    ELSE IF generated.response.content.t # "str" THEN JsonRaised
    ELSE extract_json(strip_fence(Strip(generated.response.content.text)))

\* no call made on a client yet
NoClientCall ==
    [called |-> FALSE, provider |-> "none", op |-> "none", available |-> FALSE,
     generated |-> GenerateRaised, json |-> JsonNone]

ClientCall(provider, op, available, generated, json) ==
    [called |-> TRUE, provider |-> provider, op |-> op, available |-> available,
     generated |-> generated, json |-> json]

(***************************************************************************)
(* The Run Ledger (storage/database.py): the test_results rows and the     *)
(* test_history rows, one per test name.                                   *)
(***************************************************************************)
\* at most MaxResults results are added before the history is cleared
MaxResults == 4

\* a test_history row; last_failed_at is the number of the result that set it
\* (0 for NULL)
TestHistory(last_failed_at, failure_count, total_runs, avg_duration_ms) ==
    [last_failed_at |-> last_failed_at, failure_count |-> failure_count,
     total_runs |-> total_runs, avg_duration_ms |-> avg_duration_ms]

\* the tables after _init_schema; raised tells whether the last call raised
EmptyDatabase == [results |-> << >>, history |-> << >>, raised |-> FALSE]

\* _update_test_history that counts every result as a failure
update_test_history_counting_all(history, result, now) ==
    LET name == result.test_name.s
    IN IF name \in DOMAIN history
       THEN LET row == history[name]
                total_runs == row.total_runs + 1
            IN [history EXCEPT ![name] =
                   TestHistory(now, row.failure_count + 1, total_runs,
                               (row.avg_duration_ms * row.total_runs + result.duration_ms)
                                   \div total_runs)]
       ELSE history @@ (name :> TestHistory(now, 1, 1, result.duration_ms))

\* Database._update_test_history
update_test_history(history, result, now) ==
    LET name == result.test_name.s
        is_failure == result.status \in {"failed", "error"}
    IN IF name \in DOMAIN history
       THEN LET row == history[name]
                total_runs == row.total_runs + 1
            IN [history EXCEPT ![name] =
                   TestHistory(IF is_failure THEN now ELSE row.last_failed_at,
                               row.failure_count + (IF is_failure THEN 1 ELSE 0),
                               total_runs,
                               (row.avg_duration_ms * row.total_runs + result.duration_ms)
                                   \div total_runs)]
       ELSE history @@ (name :> TestHistory(IF is_failure THEN now ELSE 0,
                                            IF is_failure THEN 1 ELSE 0,
                                            1, result.duration_ms))

\* Database.add_result: the INSERT of a result without a name violates
\* NOT NULL, the transaction is rolled back and the exception is raised
add_result(database, result) ==
    IF result.test_name.t = "null" THEN [database EXCEPT !.raised = TRUE]
    ELSE [results |-> Append(database.results, result),
          history |-> update_test_history(database.history, result,
                                          Len(database.results) + 1),
          raised |-> FALSE]

\* Database.clear_history
clear_history(database) == EmptyDatabase

\* the results that may be added
LedgerResults ==
    {TestResult(name, Str("test_calc.py"), status, 7, Str("")) :
        name \in {Str("a"), Str("b"), Null}, status \in TestStatus}

(***************************************************************************)
(* Prompt building: what _build_parse_prompt and _build_analysis_prompt    *)
(* emit for stdout, stderr, the project hints and the error message.  A    *)
(* text is kept by its length in characters.                               *)
(***************************************************************************)
\* the inputs are at most MaxExcess characters longer than their bound
MaxExcess == 24

MAX_OUTPUT_LENGTH == 15000
MAX_HINTS_LENGTH == 5000
MAX_ERROR_LENGTH == 5000
\* len("\n... (output truncated)")
MARKER_LENGTH == 23

\* the text emitted for one input: its length and whether it holds a marker
Emitted(length, marker) == [length |-> length, marker |-> marker]

\* lines 147-154: stdout[:15000], and the marker appended when stdout is longer
truncate_output(n) ==
    IF n > MAX_OUTPUT_LENGTH THEN Emitted(MAX_OUTPUT_LENGTH + MARKER_LENGTH, TRUE)
    ELSE Emitted(n, FALSE)

\* hints[:5000]
truncate_hints(n) == Emitted(Min(n, MAX_HINTS_LENGTH), FALSE)

\* test_result.error_message[:5000]
truncate_error(n) == Emitted(Min(n, MAX_ERROR_LENGTH), FALSE)

NoPrompt ==
    [built |-> FALSE, op |-> "none", sizes |-> << >>, bounds |-> << >>, emitted |-> << >>]

Prompt(op, sizes, bounds, emitted) ==
    [built |-> TRUE, op |-> op, sizes |-> sizes, bounds |-> bounds, emitted |-> emitted]

\* LLMOutputParser._build_parse_prompt for a stdout, a stderr and hints of the
\* given lengths
build_parse_prompt(stdout_len, stderr_len, hints_len) ==
    Prompt("parse", <<stdout_len, stderr_len, hints_len>>,
           <<MAX_OUTPUT_LENGTH, MAX_OUTPUT_LENGTH, MAX_HINTS_LENGTH>>,
           <<truncate_output(stdout_len), truncate_output(stderr_len),
             truncate_hints(hints_len)>>)

\* FailureAnalyzer._build_analysis_prompt for an error message of the given length
analysis_prompt(error_len) ==
    Prompt("analysis", <<error_len>>, <<MAX_ERROR_LENGTH>>, <<truncate_error(error_len)>>)

\* lengths around a bound
Around(bound) == {bound + d : d \in (-1)..MaxExcess}

(***************************************************************************)
(* Classification: the raw execution and the interpreter's structured      *)
(* result for it are fixed; each call of parse meets a Gateway that is     *)
(* unavailable, returns nothing, raises, or returns that result.           *)
(***************************************************************************)
Atoms ==
    { <<"P","A","S","S">>, <<"o","k">>, <<"F","a","i","l">>, <<"E","D">>,
      <<"s","k","i","p">>, <<CheckMark>>, <<BallotX>>, <<" ">>, <<"x">> }

RECURSIVE TextsOfLen(_)
TextsOfLen(k) ==
    IF k = 0 THEN {<< >>}
    ELSE {a \o t : a \in Atoms, t \in TextsOfLen(k - 1)}

Texts == UNION {TextsOfLen(k) : k \in 0..MaxAtoms}

\* stderr of the test command: empty, or a diagnostic that holds a failing token
StderrTexts ==
    { << >>,
      <<"E","r","r","o","r"," ","x">> }

ExitCodes == {0, 1, -1}

\* what generate_json does when a call of parse reaches it
GenBehaviours == {"none", "raise", "reply"}

ResponseOf(gen, scripted) ==
    CASE gen = "none" -> ReturnsNone
      [] gen = "raise" -> Raises
      [] OTHER -> scripted

NoCall ==
    [called |-> FALSE, available |-> FALSE, gen |-> "none", res |-> Propagated(<< >>)]

Call(available, gen, res) ==
    [called |-> TRUE, available |-> available, gen |-> gen, res |-> res]

\* no call of the correlator yet
NoCorr ==
    [called |-> FALSE, op |-> "none", behaviours |-> << >>, raised |-> FALSE,
     analyses |-> << >>, from |-> << >>, log |-> << >>]

Correlated(op, behaviours, raised, analyses, from, log) ==
    [called |-> TRUE, op |-> op, behaviours |-> behaviours, raised |-> raised,
     analyses |-> analyses, from |-> from, log |-> log]

\* the `run` command has not been started
NoLedger ==
    [created |-> FALSE, results |-> << >>, finished |-> FALSE,
     total |-> Num(0), passed |-> Num(0), failed |-> Num(0), skipped |-> Num(0)]

Idle(report, git_enabled) ==
    [pc |-> "idle", report_option |-> report, git_enabled |-> git_enabled,
     provider |-> "ollama", llm_client |-> "none",
     ledger |-> NoLedger, displayed |-> FALSE, analyses |-> << >>,
     report |-> "none", exited |-> FALSE, status |-> 0, crashed |-> FALSE,
     events |-> << >>]

Init ==
    /\ transport = NoTransport
    /\ client = NoClientCall
    /\ db = EmptyDatabase
    /\ prompts = NoPrompt
    /\ test_results = << >>
    /\ git_changes = NoGit
    /\ corr = NoCorr
    /\ run = Idle(FALSE, FALSE)
    /\ \/ /\ stdout \in Texts
          /\ stderr \in StderrTexts
          /\ exit_code \in ExitCodes
          /\ reply = ReturnsList
       \/ /\ stdout \in {<<"P","A","S","S"," ","x">>}
          /\ stderr = << >>
          /\ exit_code = 1
          /\ reply \in DictResponses
    /\ last = NoCall
    /\ earlier = NoCall

Parse ==
    /\ \E available \in BOOLEAN, gen \in GenBehaviours :
          \* an unavailable Gateway is given no generation behaviour to choose
          /\ available \/ gen = "none"
          /\ last' = Call(available, gen,
                       parse(stdout, stderr, exit_code, available, ResponseOf(gen, reply)))
    /\ UNCHANGED <<stdout, stderr, exit_code, reply, earlier, correlatorVars, run>>
    /\ UNCHANGED otherVars

Next == Parse

Spec == Init /\ [][Next]_vars

(***************************************************************************)
(* Repeated classification: parse is called again and again on one raw     *)
(* execution; the first call that returned the fallback output is kept     *)
(* beside the last call.                                                   *)
(***************************************************************************)
\* a result that is no dict, and a structured result that converts
RepeatReplies ==
    { ReturnsList,
      Response("dict",
               TestsList(<<Item(Str("a"), Str("f.py"), Str("passed"), Num(7), Null)>>),
               Summary(Num(2), Num(1), Num(1), Num(0), Num(9)),
               FALSE) }

InitRepeat ==
    /\ transport = NoTransport
    /\ client = NoClientCall
    /\ db = EmptyDatabase
    /\ prompts = NoPrompt
    /\ test_results = << >>
    /\ git_changes = NoGit
    /\ corr = NoCorr
    /\ run = Idle(FALSE, FALSE)
    /\ stdout \in Texts
    /\ stderr \in StderrTexts \ {<< >>}
    /\ exit_code \in {0, 1}
    /\ reply \in RepeatReplies
    /\ last = NoCall
    /\ earlier = NoCall

ParseAgain ==
    /\ \E available \in BOOLEAN, gen \in GenBehaviours :
          /\ available \/ gen = "none"
          /\ last' = Call(available, gen,
                       parse(stdout, stderr, exit_code, available, ResponseOf(gen, reply)))
    /\ earlier' = IF ~earlier.called /\ last.called /\ last.res.via = "fallback"
                  THEN last
                  ELSE earlier
    /\ UNCHANGED <<stdout, stderr, exit_code, reply, correlatorVars, run>>
    /\ UNCHANGED otherVars

NextRepeat == ParseAgain

SpecRepeat == InitRepeat /\ [][NextRepeat]_vars

(***************************************************************************)
(* Correlation: the test results and the change context are fixed; one     *)
(* call of analyze or analyze_multiple is made on them, the Gateway        *)
(* behaving as it may during the analysis of each test result.             *)
(***************************************************************************)
Failing(name, status, error) == TestResult(Str(name), Str("test_calc.py"), status, 7, error)

OutcomePool ==
    { Failing("t1", "failed", Str("boom")),
      Failing("t2", "failed", Str("")),
      Failing("t3", "error", Str("boom")),
      Failing("t4", "passed", Str("boom")),
      Failing("t5", "failed", Num(42)) }

SmallGit ==
    Git(<< [path |-> "src/calc.py", change_type |-> "M"] >>,
        << [short_hash |-> "abc123", message |-> "Fix division logic"] >>)

\* a change context with one file and one commit more than the prompt lists
LargeGit ==
    Git([i \in 1..(MAX_PROMPT_FILES + 1) |-> [path |-> ToString(i), change_type |-> "M"]],
        [i \in 1..(MAX_PROMPT_COMMITS + 1) |-> [short_hash |-> ToString(i), message |-> "m"]])

InitCorrelate ==
    /\ transport = NoTransport
    /\ client = NoClientCall
    /\ db = EmptyDatabase
    /\ prompts = NoPrompt
    /\ stdout = << >>
    /\ stderr = << >>
    /\ exit_code = 0
    /\ reply = ReturnsList
    /\ last = NoCall
    /\ earlier = NoCall
    /\ run = Idle(FALSE, FALSE)
    /\ test_results \in ListsUpTo(OutcomePool, MaxOutcomes)
    /\ git_changes \in {NoGit, SmallGit, LargeGit}
    /\ corr = NoCorr

Analyze ==
    /\ ~corr.called
    /\ \E i \in 1..Len(test_results), b \in Behaviours :
          LET r == analyze(test_results[i], git_changes, b.available, b.response)
          IN /\ corr' = Correlated("analyze", [k \in {i} |-> b], r.raised,
                                   IF r.some THEN <<r.val>> ELSE << >>,
                                   IF r.some THEN <<i>> ELSE << >>,
                                   Tag(r.log, i))
             /\ git_changes' = context_after_analyze(test_results[i], git_changes,
                                                     b.available)
    /\ UNCHANGED <<classifierVars, test_results, run>>
    /\ UNCHANGED otherVars

AnalyzeMultiple ==
    /\ ~corr.called
    /\ \E bs \in [1..Len(test_results) -> Behaviours] :
          LET r == analyze_multiple(test_results, git_changes, bs)
          IN /\ corr' = Correlated("analyze_multiple", bs, r.raised, r.analyses, r.from,
                                   r.log)
             /\ git_changes' = context_after_loop(test_results, git_changes, bs, 1)
    /\ UNCHANGED <<classifierVars, test_results, run>>
    /\ UNCHANGED otherVars

NextCorrelate == Analyze \/ AnalyzeMultiple

SpecCorrelate == InitCorrelate /\ [][NextCorrelate]_vars

(***************************************************************************)
(* The Gateway on its own: the network's behaviour for the next request is *)
(* fixed; a client of either provider is probed or asked to generate.      *)
(***************************************************************************)
InitGateway ==
    /\ stdout = << >>
    /\ stderr = << >>
    /\ exit_code = 0
    /\ reply = ReturnsList
    /\ last = NoCall
    /\ earlier = NoCall
    /\ test_results = << >>
    /\ git_changes = NoGit
    /\ corr = NoCorr
    /\ run = Idle(FALSE, FALSE)
    /\ db = EmptyDatabase
    /\ prompts = NoPrompt
    /\ transport \in Transports
    /\ client = NoClientCall

IsAvailable ==
    /\ \E provider \in Providers :
          client' = ClientCall(provider, "is_available", is_available(provider, transport),
                               GenerateRaised, JsonNone)
    /\ UNCHANGED <<pipelineVars, transport, db, prompts>>

Generate ==
    /\ \E provider \in Providers :
          client' = ClientCall(provider, "generate", FALSE, generate(provider, transport),
                               JsonNone)
    /\ UNCHANGED <<pipelineVars, transport, db, prompts>>

GenerateJson ==
    /\ \E provider \in Providers :
          LET generated == generate(provider, transport)
          IN client' = ClientCall(provider, "generate_json", FALSE, generated,
                                  generate_json(generated))
    /\ UNCHANGED <<pipelineVars, transport, db, prompts>>

NextGateway == IsAvailable \/ Generate \/ GenerateJson

SpecGateway == InitGateway /\ [][NextGateway]_vars

(***************************************************************************)
(* Prompt building on its own.                                             *)
(***************************************************************************)
InitPrompt ==
    /\ stdout = << >>
    /\ stderr = << >>
    /\ exit_code = 0
    /\ reply = ReturnsList
    /\ last = NoCall
    /\ earlier = NoCall
    /\ test_results = << >>
    /\ git_changes = NoGit
    /\ corr = NoCorr
    /\ run = Idle(FALSE, FALSE)
    /\ transport = NoTransport
    /\ client = NoClientCall
    /\ db = EmptyDatabase
    /\ prompts = NoPrompt

BuildParsePrompt ==
    /\ ~prompts.built
    /\ \E stdout_len \in Around(MAX_OUTPUT_LENGTH), stderr_len \in Around(MAX_OUTPUT_LENGTH),
          hints_len \in {0} \cup Around(MAX_HINTS_LENGTH) :
          prompts' = build_parse_prompt(stdout_len, stderr_len, hints_len)
    /\ UNCHANGED <<pipelineVars, transport, client, db>>

BuildAnalysisPrompt ==
    /\ ~prompts.built
    /\ \E error_len \in Around(MAX_ERROR_LENGTH) : prompts' = analysis_prompt(error_len)
    /\ UNCHANGED <<pipelineVars, transport, client, db>>

NextPrompt == BuildParsePrompt \/ BuildAnalysisPrompt

SpecPrompt == InitPrompt /\ [][NextPrompt]_vars

(***************************************************************************)
(* The Run Ledger on its own.                                              *)
(***************************************************************************)
InitLedger ==
    /\ stdout = << >>
    /\ stderr = << >>
    /\ exit_code = 0
    /\ reply = ReturnsList
    /\ last = NoCall
    /\ earlier = NoCall
    /\ test_results = << >>
    /\ git_changes = NoGit
    /\ corr = NoCorr
    /\ run = Idle(FALSE, FALSE)
    /\ transport = NoTransport
    /\ client = NoClientCall
    /\ prompts = NoPrompt
    /\ db = EmptyDatabase

AddResult ==
    /\ Len(db.results) < MaxResults
    /\ \E result \in LedgerResults : db' = add_result(db, result)
    /\ UNCHANGED <<pipelineVars, transport, client, prompts>>

ClearHistory ==
    /\ db.results # << >>
    /\ db' = clear_history(db)
    /\ UNCHANGED <<pipelineVars, transport, client, prompts>>

NextLedger == AddResult \/ ClearHistory

SpecLedger == InitLedger /\ [][NextLedger]_vars

(***************************************************************************)
(* The `run` command (cli.py): configuration, change context, execution,   *)
(* classification, storage, summary, correlation, report, exit.  run.pc is *)
(* the stage about to be executed.  An exception that nothing catches      *)
(* ends the command with status 1 (run.crashed).                           *)
(***************************************************************************)
Stage(r, pc, event) == [r EXCEPT !.pc = pc, !.events = Append(@, event)]

Exit(r, status, event) ==
    [r EXCEPT !.pc = "done", !.exited = TRUE, !.status = status,
              !.events = Append(@, event)]

Crash(r, event) ==
    [r EXCEPT !.pc = "done", !.exited = TRUE, !.status = 1, !.crashed = TRUE,
              !.events = Append(@, event)]

\* what TestExecutor.execute returns: the command's output and exit code, or
\* the timeout and error records with exit code -1
Execution(out, err, code) == [stdout |-> out, stderr |-> err, exit_code |-> code]

TimeoutExecution == Execution(<< >>, <<"t","m","d"," ","o","u","t">>, -1)
ErrorExecution == Execution(<< >>, <<"E","r","r","o","r"," ","x">>, -1)

Executions ==
    {Execution(out, << >>, code) :
        out \in {<<"P","A","S","S"," ","x">>, <<"F","a","i","l"," ","x">>, <<"x">>},
        code \in {0, 1}}
    \cup {TimeoutExecution, ErrorExecution}

\* the structured results the interpreter may have for the run's output
RunReplies ==
    { ReturnsList,
      Response("dict",
               TestsList(<< Item(Str("a"), Str("f.py"), Str("passed"), Num(7), Null),
                            Item(Str("b"), Str("f.py"), Str("FAILED"), Num(0), Str("boom")) >>),
               Summary(Num(2), Num(1), Num(1), Num(0), Num(9)), FALSE),
      Response("dict",
               TestsList(<< Item(Str("b"), Str("f.py"), Str("FAILED"), Num(0), Str("boom")) >>),
               Summary(Num(1), Num(1), Num(0), Num(0), Num(9)), FALSE),
      Response("dict",
               TestsList(<< Item(Str("m"), Str("f.py"), Str("failed"), Num(7), Num(42)),
                            Item(Str("b"), Str("f.py"), Str("FAILED"), Num(0), Str("boom")) >>),
               Summary(Num(2), Num(0), Num(2), Num(0), Num(9)), FALSE),
      Response("dict", TestsList(<< >>),
               Summary(Str("5"), Null, Num(0), Missing, Null), FALSE),
      Response("dict",
               TestsList(<< Item(Null, Str("f.py"), Str("passed"), Num(7), Null) >>),
               Summary(Num(1), Num(1), Num(0), Num(0), Num(9)), FALSE) }

RunBehaviours ==
    { Behaviour(FALSE, AnalysisNone),
      Behaviour(TRUE, AnalysisRaises),
      Behaviour(TRUE, AnalysisResponse("dict", Str("zero division"), Str("src/calc.py"),
                                       Str("abc123"), Flt(85), Str("why"), Str("fix"))),
      Behaviour(TRUE, AnalysisResponse("dict", Str("typo"), Missing, Missing, Str("high"),
                                       Missing, Missing)) }

IsNumber(v) == v.t \in {"num", "float"}

\* the first test result that the test_results table refuses
\* (test_name TEXT NOT NULL), or 0
RECURSIVE first_rejected(_, _)
first_rejected(tests, i) ==
    IF i > Len(tests) THEN 0
    ELSE IF tests[i].test_name.t = "null" THEN i
    ELSE first_rejected(tests, i + 1)

\* _display_results_summary raises TypeError on `total > 0`, `passed / total`
\* or `failed > 0` when the count is no number
display_raises(parsed) ==
    \/ ~IsNumber(parsed.total)
    \/ parsed.total.n > 0 /\ ~IsNumber(parsed.passed)
    \/ ~IsNumber(parsed.failed)

\* [t for t in parsed.tests if t.status == TestStatus.FAILED]
RECURSIVE failed_tests(_)
failed_tests(tests) ==
    IF tests = << >> THEN << >>
    ELSE IF Head(tests).status = "failed"
    THEN <<Head(tests)>> \o failed_tests(Tail(tests))
    ELSE failed_tests(Tail(tests))

\* the exit status that follows the itemized outcomes instead of parsed.failed
exit_status_itemized(parsed) == IF failed_tests(parsed.tests) # << >> THEN 1 ELSE 0

\* the end of run: sys.exit(1) if parsed.failed > 0, else a normal return
exit_status(parsed) == IF parsed.failed.n > 0 THEN 1 ELSE 0

\* the client class that implements a provider
ClientClass(provider) ==
    IF provider = "ollama" THEN "OllamaClient" ELSE "OpenRouterClient"

\* lines 130-134: the client that `run` builds from the configuration
run_llm_client(provider) == "OllamaClient"

InitRun ==
    /\ transport = NoTransport
    /\ client = NoClientCall
    /\ db = EmptyDatabase
    /\ prompts = NoPrompt
    /\ stdout = << >>
    /\ stderr = << >>
    /\ exit_code = 0
    /\ reply \in RunReplies
    /\ last = NoCall
    /\ earlier = NoCall
    /\ test_results = << >>
    /\ git_changes = NoGit
    /\ corr = NoCorr
    /\ \E report \in BOOLEAN, git_enabled \in BOOLEAN, provider \in Providers :
          run = [Idle(report, git_enabled) EXCEPT !.pc = "config", !.provider = provider]

\* lines 99-109: a missing configuration file ends the command with status 1
RunLoadConfig ==
    /\ run.pc = "config"
    /\ \E found \in BOOLEAN :
          run' = IF found THEN Stage(run, "init", "config")
                 ELSE Exit(run, 1, "config")
    /\ UNCHANGED <<classifierVars, correlatorVars>>
    /\ UNCHANGED otherVars

\* lines 120-144: the database, the LLM client, the executor, the parser and
\* the analyzer are built; the parser and the analyzer share the client
RunInit ==
    /\ run.pc = "init"
    /\ run' = Stage([run EXCEPT !.llm_client = run_llm_client(run.provider)], "git", "init")
    /\ UNCHANGED <<classifierVars, correlatorVars>>
    /\ UNCHANGED otherVars

\* lines 146-168: the change context; a failure of the git analysis is caught
RunGit ==
    /\ run.pc = "git"
    /\ \E ok \in BOOLEAN :
          git_changes' = IF run.git_enabled /\ ok THEN SmallGit ELSE NoGit
    /\ run' = Stage(run, "execute", "git")
    /\ UNCHANGED <<classifierVars, test_results, corr>>
    /\ UNCHANGED otherVars

\* lines 170-186
RunExecute ==
    /\ run.pc = "execute"
    /\ \E e \in Executions :
          /\ stdout' = e.stdout
          /\ stderr' = e.stderr
          /\ exit_code' = e.exit_code
    /\ run' = Stage(run, "parse", "execute")
    /\ UNCHANGED <<reply, last, earlier, correlatorVars>>
    /\ UNCHANGED otherVars

\* lines 188-210: an exception of parse is caught and ends the command
RunParse ==
    /\ run.pc = "parse"
    /\ \E available \in BOOLEAN, gen \in GenBehaviours :
          /\ available \/ gen = "none"
          /\ LET res == parse(stdout, stderr, exit_code, available, ResponseOf(gen, reply))
             IN /\ last' = Call(available, gen, res)
                /\ run' = IF res.raised THEN Exit(run, 1, "parse")
                          ELSE Stage(run, "store", "parse")
    /\ UNCHANGED <<stdout, stderr, exit_code, reply, earlier, correlatorVars>>
    /\ UNCHANGED otherVars

\* lines 212-227: create_run, add_result for each test, finish_run
RunStore ==
    /\ run.pc = "store"
    /\ LET parsed == last.res.out
           bad == first_rejected(parsed.tests, 1)
       IN run' = IF bad # 0
                 THEN Crash([run EXCEPT !.ledger.created = TRUE,
                                        !.ledger.results = SubSeq(parsed.tests, 1, bad - 1)],
                            "store")
                 ELSE Stage([run EXCEPT !.ledger = [created |-> TRUE,
                                                    results |-> parsed.tests,
                                                    finished |-> TRUE,
                                                    total |-> parsed.total,
                                                    passed |-> parsed.passed,
                                                    failed |-> parsed.failed,
                                                    skipped |-> parsed.skipped]],
                            "display", "store")
    /\ UNCHANGED <<classifierVars, correlatorVars>>
    /\ UNCHANGED otherVars

\* lines 229-241
RunDisplay ==
    /\ run.pc = "display"
    /\ run' = IF display_raises(last.res.out) THEN Crash(run, "display")
              ELSE Stage([run EXCEPT !.displayed = TRUE], "analyze", "display")
    /\ UNCHANGED <<classifierVars, correlatorVars>>
    /\ UNCHANGED otherVars

\* lines 243-261: the failed outcomes are analyzed when parsed.failed > 0; an
\* exception of analyze_multiple is caught and leaves no analyses
RunAnalyze ==
    /\ run.pc = "analyze"
    /\ IF last.res.out.failed.n > 0
       THEN LET failed == failed_tests(last.res.out.tests)
            IN \E bs \in [1..Len(failed) -> RunBehaviours] :
                  LET r == analyze_multiple(failed, git_changes, bs)
                  IN /\ test_results' = failed
                     /\ corr' = Correlated("analyze_multiple", bs, r.raised, r.analyses,
                                           r.from, r.log)
                     /\ git_changes' = context_after_loop(failed, git_changes, bs, 1)
                     /\ run' = Stage([run EXCEPT !.analyses = r.analyses],
                                     "report", "analyze")
       ELSE /\ run' = Stage(run, "report", "analyze")
            /\ UNCHANGED <<test_results, git_changes, corr>>
    /\ UNCHANGED classifierVars
    /\ UNCHANGED otherVars

\* lines 263-275: an exception of the report generation is caught
RunReport ==
    /\ run.pc = "report"
    /\ \E ok \in BOOLEAN :
          run' = IF run.report_option
                 THEN Stage([run EXCEPT !.report = IF ok THEN "written" ELSE "failed"],
                            "exit", "report")
                 ELSE Stage(run, "exit", "report")
    /\ UNCHANGED <<classifierVars, correlatorVars>>
    /\ UNCHANGED otherVars

\* lines 277-279
RunExit ==
    /\ run.pc = "exit"
    /\ run' = Exit(run, exit_status(last.res.out), "exit")
    /\ UNCHANGED <<classifierVars, correlatorVars>>
    /\ UNCHANGED otherVars

NextRun ==
    \/ RunLoadConfig
    \/ RunInit
    \/ RunGit
    \/ RunExecute
    \/ RunParse
    \/ RunStore
    \/ RunDisplay
    \/ RunAnalyze
    \/ RunReport
    \/ RunExit

SpecRun == InitRun /\ [][NextRun]_vars

(***************************************************************************)
(* Properties of classification (specification Spec).                      *)
(***************************************************************************)
IsFunctionOnPrefix(f) == DOMAIN f = 1..Len(f)

IsTestResult(r) ==
    /\ r.status \in TestStatus
    /\ r.duration_ms \in Int

IsParsedTestOutput(o) ==
    /\ IsFunctionOnPrefix(o.tests)
    /\ \A i \in DOMAIN o.tests : IsTestResult(o.tests[i])
    /\ o.parse_confidence \in {FALLBACK_CONFIDENCE, LLM_CONFIDENCE}

\* this call of parse got the scripted structured result from generate_json
GotReply == last.called /\ last.available /\ last.gen = "reply"

ConversionFails == ~convert_response_to_output(reply, stdout).ok

\* C1: parse never raises and always returns a ParsedTestOutput, whatever the
\* output, the exit code and the Gateway's behaviour (unavailable, nothing,
\* an exception, a structured result of any content).
C1_ParseAlwaysReturns ==
    last.called => /\ ~last.res.raised
                   /\ last.res.via \in {"llm", "fallback"}
                   /\ IsParsedTestOutput(last.res.out)

\* C1 witness: a structured result with a null status label, whose conversion
\* raises, was answered by a returned ParsedTestOutput.
C1_Witness ==
    /\ GotReply
    /\ reply.kind = "dict"
    /\ reply.tests.t = "list"
    /\ \E i \in 1..Len(reply.tests.items) : reply.tests.items[i].status = Null
    /\ ConversionFails
    /\ ~last.res.raised
    /\ last.res.via = "fallback"
    /\ IsParsedTestOutput(last.res.out)

NoFailingToken(text) ==
    \A i \in 1..Len(text) : \A j \in DOMAIN FailedTokens : ~MatchAt(text, i, FailedTokens[j])

\* C3: every fallback classification of an execution with a non-zero exit code
\* has failed >= 1, and failed = 1 when the combined output holds no failing
\* token.
C3_ForcedFailure ==
    (last.called /\ last.res.via = "fallback" /\ exit_code # 0) =>
        /\ last.res.out.failed.t = "num"
        /\ last.res.out.failed.n >= 1
        /\ NoFailingToken(stdout \o <<Newline>> \o stderr) => last.res.out.failed = Num(1)

\* C3 witness: a non-zero exit, passing tokens only, and a forced failure.
C3_Witness ==
    /\ last.called
    /\ last.res.via = "fallback"
    /\ exit_code # 0
    /\ NoFailingToken(stdout \o <<Newline>> \o stderr)
    /\ last.res.out.passed.n >= 1
    /\ last.res.out.failed = Num(1)

\* C4: parse_confidence is 1.0 exactly when the output was built from the
\* interpreter's structured result and 0.3 in every other case (Gateway
\* unavailable, nothing returned, generate_json raised, conversion failed).
C4_ConfidenceProvenance ==
    last.called =>
        LET o == last.res.out
            built == GotReply /\ ResponseTruthy(reply) /\ ~ConversionFails
        IN /\ o.parse_confidence \in {FALLBACK_CONFIDENCE, LLM_CONFIDENCE}
           /\ o.parse_confidence = LLM_CONFIDENCE <=> built
           /\ built => o = convert_response_to_output(reply, stdout).val
           /\ ~built => o.parse_confidence = FALLBACK_CONFIDENCE

\* C4 witness: the conversion of a structured result failed and the output
\* carries confidence 0.3.
C4_Witness ==
    /\ GotReply
    /\ ResponseTruthy(reply)
    /\ ConversionFails
    /\ last.res.out.parse_confidence = FALLBACK_CONFIDENCE

\* the item is a dict whose status label is an unknown word or is absent
UnrecognizedLabel(item) ==
    /\ item.kind = "dict"
    /\ \/ item.status.t = "missing"
       \/ item.status.t = "str" /\ LowerLabel(item.status.s) \notin TestStatus

\* C5: every outcome of a returned ParsedTestOutput has one of the four
\* statuses, and every item of the structured result whose label is an unknown
\* word or is missing is represented by an outcome with status "error".
C5_UnknownLabelIsError ==
    /\ last.called => \A i \in DOMAIN last.res.out.tests :
                          last.res.out.tests[i].status \in TestStatus
    /\ (GotReply /\ reply.kind = "dict" /\ reply.tests.t = "list") =>
          \A i \in 1..Len(reply.tests.items) :
              UnrecognizedLabel(reply.tests.items[i]) =>
                  /\ i \in DOMAIN last.res.out.tests
                  /\ last.res.out.tests[i].status = "error"

\* C6: a structured result whose test list has n items yields exactly n
\* outcomes, the i-th built from the i-th item (same name), whatever the
\* items' labels, durations and error messages.
C6_NoTestDropped ==
    (GotReply /\ reply.kind = "dict" /\ reply.tests.t = "list") =>
        /\ Len(last.res.out.tests) = Len(reply.tests.items)
        /\ \A i \in 1..Len(reply.tests.items) :
              reply.tests.items[i].name.t = "str" =>
                  /\ i \in DOMAIN last.res.out.tests
                  /\ last.res.out.tests[i].test_name = reply.tests.items[i].name

\* C7: an interpreter-derived output with itemized outcomes has
\* total = passed + failed + skipped.
C7_TotalIsSum ==
    (last.called /\ last.res.via = "llm" /\ Len(last.res.out.tests) > 0) =>
        LET o == last.res.out
        IN /\ \A c \in {o.total, o.passed, o.failed, o.skipped} : c.t = "num"
           /\ o.total.n = o.passed.n + o.failed.n + o.skipped.n

\* C8: an outcome with status passed or skipped has an empty error message,
\* whatever error_message the interpreter supplied for the item.
C8_ErrorMessageOnlyOnFailure ==
    last.called =>
        \A i \in DOMAIN last.res.out.tests :
            last.res.out.tests[i].status \in {"passed", "skipped"} =>
                last.res.out.tests[i].error_message = Str("")

\* C19: when the Gateway reports unavailable, parse returns the fallback
\* output without calling generate_json; the availability probe is made
\* exactly once, before any generation request.
C19_UnavailableSkipsInterpreter ==
    last.called =>
        /\ ~last.available =>
              /\ last.res.trace = <<"is_available">>
              /\ last.res.via = "fallback"
              /\ last.res.out = fallback_parse(stdout, stderr, exit_code)
        /\ last.res.trace # << >>
        /\ last.res.trace[1] = "is_available"
        /\ \A k \in 2..Len(last.res.trace) : last.res.trace[k] # "is_available"

\* C19 witness: the Gateway was unavailable while the interpreter had a
\* structured result with two tests to give; the fallback output was returned.
C19_Witness ==
    /\ last.called
    /\ ~last.available
    /\ reply.kind = "dict"
    /\ reply.tests.t = "list"
    /\ Len(reply.tests.items) = 2
    /\ last.res.trace = <<"is_available">>
    /\ last.res.out.tests = << >>
    /\ last.res.out.parse_confidence = FALLBACK_CONFIDENCE

\* the structured result converts but for its durations: a list of dict items
\* with text or absent status labels, and a summary that is a dict or absent
WellFormedButDurations(response) ==
    /\ response.kind = "dict"
    /\ response.tests.t = "list"
    /\ response.summary.t # "null"
    /\ \A i \in 1..Len(response.tests.items) :
          /\ response.tests.items[i].kind = "dict"
          /\ response.tests.items[i].status.t \in {"missing", "str"}

\* the duration is absent, null or text that is no number
GarbledDuration(item) ==
    \/ item.duration_ms.t \in {"missing", "null"}
    \/ item.duration_ms.t = "str" /\ ~PyInt(item.duration_ms).ok

\* C20: when an item's duration_ms is absent, null or not a number, parse
\* still returns the interpreter-derived output (confidence 1.0, every item
\* kept) and the item's outcome has duration_ms = 0.
C20_GarbledDurationIsZero ==
    ( /\ GotReply
      /\ WellFormedButDurations(reply)
      /\ \E i \in 1..Len(reply.tests.items) : GarbledDuration(reply.tests.items[i]) ) =>
            /\ last.res.via = "llm"
            /\ last.res.out.parse_confidence = LLM_CONFIDENCE
            /\ Len(last.res.out.tests) = Len(reply.tests.items)
            /\ \A i \in 1..Len(reply.tests.items) :
                  GarbledDuration(reply.tests.items[i]) =>
                      last.res.out.tests[i].duration_ms = 0

(***************************************************************************)
(* Properties of correlation (specification SpecCorrelate).                *)
(***************************************************************************)
GenerateCalledAt(p) ==
    \E k \in DOMAIN corr.log : corr.log[k] = [op |-> "generate_json", at |-> p]

\* C9: analyze returns nothing and never calls generate_json for an outcome
\* when the Gateway is unavailable or the outcome's error message is empty.
C9_ShortCircuit ==
    corr.called =>
        \A p \in DOMAIN corr.behaviours :
            (~corr.behaviours[p].available \/ test_results[p].error_message = Str("")) =>
                /\ p \notin Range(corr.from)
                /\ ~GenerateCalledAt(p)
                /\ corr.op = "analyze" => (~corr.raised /\ corr.analyses = << >>)

\* C9 witness: analyze was called on an outcome with an empty error message
\* while the Gateway was available and had a structured result to give.
C9_Witness ==
    /\ corr.called
    /\ corr.op = "analyze"
    /\ \E p \in DOMAIN corr.behaviours :
          /\ corr.behaviours[p].available
          /\ corr.behaviours[p].response.kind = "dict"
          /\ test_results[p].error_message = Str("")
          /\ corr.log = <<[op |-> "is_available", at |-> p]>>
    /\ corr.analyses = << >>

\* the structured result is an object that _convert_response_to_analysis accepts
Accepted(response) ==
    /\ response.kind = "dict"
    /\ AnalysisTruthy(response)
    /\ convert_response_to_analysis(Str("t"), response).ok

\* C10: analyze_multiple does not raise, whatever the input sequence and the
\* positions at which the interpreter call raises or returns nothing, and
\* returns an analysis for every outcome that has a non-empty error message
\* and for which the interpreter returned a structured result.
C10_SiblingsSurvive ==
    (corr.called /\ corr.op = "analyze_multiple") =>
        /\ ~corr.raised
        /\ \A p \in 1..Len(test_results) :
              ( /\ Truthy(test_results[p].error_message)
                /\ corr.behaviours[p].available
                /\ Accepted(corr.behaviours[p].response) ) => p \in Range(corr.from)

\* the input positions of analyze_multiple that hold a failing outcome (status
\* failed or error) with a non-empty error message
FailingWithMessage ==
    {p \in 1..Len(test_results) : /\ test_results[p].status \in {"failed", "error"}
                                  /\ Truthy(test_results[p].error_message)}

\* C11: the test names of the sequence returned by analyze_multiple form an
\* order-preserving subsequence of the input's test names, and the sequence
\* is no longer than the number of failing input outcomes with a non-empty
\* error message.
C11_OrderedSubsequence ==
    (corr.called /\ corr.op = "analyze_multiple" /\ ~corr.raised) =>
        /\ Len(corr.from) = Len(corr.analyses)
        /\ \A k \in 1..Len(corr.analyses) :
              /\ corr.from[k] \in 1..Len(test_results)
              /\ corr.analyses[k].test_name = test_results[corr.from[k]].test_name
              /\ k > 1 => corr.from[k - 1] < corr.from[k]
        /\ Len(corr.analyses) <= Cardinality(FailingWithMessage)

\* the value of a JSON number in hundredths
Hundredths(v) == IF v.t = "num" THEN v.n * 100 ELSE v.n

\* the analysis field equals the key of the structured result, an absent or
\* null key being None
KeptOrAbsent(field, value) ==
    IF value.t \in {"missing", "null"} THEN field = Null ELSE field = value

\* C12: a FailureAnalysis returned for an outcome carries the outcome's test
\* name and the likely cause, suspected file, suspected commit, confidence,
\* explanation and suggested fix of the structured result, a null suspected
\* file or commit being kept as absent.
C12_FieldsCopied ==
    (corr.called /\ ~corr.raised) =>
        \A k \in 1..Len(corr.analyses) :
            LET p == corr.from[k]
                r == corr.behaviours[p].response
                a == corr.analyses[k]
            IN /\ r.kind = "dict"
               /\ a.test_name = test_results[p].test_name
               /\ r.likely_cause.t # "missing" => a.likely_cause = r.likely_cause
               /\ KeptOrAbsent(a.suspected_file, r.suspected_file)
               /\ KeptOrAbsent(a.suspected_commit, r.suspected_commit)
               /\ r.confidence.t \in {"num", "float"} => a.confidence = Hundredths(r.confidence)
               /\ r.explanation.t # "missing" => a.explanation = r.explanation
               /\ r.suggested_fix.t # "missing" => a.suggested_fix = r.suggested_fix

\* C12 witness: analyze returned the analysis of t1 with the fields of the
\* structured result (src/calc.py, abc123, 0.85).
C12_Witness ==
    /\ corr.called
    /\ corr.op = "analyze"
    /\ corr.analyses = << FailureAnalysis(Str("t1"), Str("zero division"), Str("src/calc.py"),
                                          Str("abc123"), 85, Str("why"), Str("fix")) >>

\* C13: every FailureAnalysis returned by analyze or analyze_multiple has a
\* confidence within [0,1], whatever the structured result carries.
C13_ConfidenceInRange ==
    corr.called =>
        \A k \in 1..Len(corr.analyses) :
            corr.analyses[k].confidence >= 0 /\ corr.analyses[k].confidence <= 100

(***************************************************************************)
(* Properties of the `run` command (specification SpecRun).                *)
(***************************************************************************)
\* the run classified, with the Gateway unavailable, an execution that ended
\* with a non-zero exit code
UnavailableOnFailure == last.called /\ ~last.available /\ exit_code # 0

TransportFailure ==
    \/ transport.kind \in {"timeout", "http_error", "connect_error", "invalid_body"}
    \/ transport.kind = "body" /\ transport.shape = "array"

\* C14: generate of both providers never raises; a timeout, a non-2xx status,
\* a connection failure or an unusable body gives a response with empty
\* content and a diagnostic in raw_response.
C14_GenerateNeverRaises ==
    (client.called /\ client.op \in {"generate", "generate_json"}) =>
        /\ ~client.generated.raised
        /\ TransportFailure =>
              /\ client.generated.response.content = Content(<< >>)
              /\ client.generated.response.error # ""

\* C14 witness: the OpenRouter client met a connection failure and returned
\* an empty response with the diagnostic.
C14_Witness ==
    /\ client.called
    /\ client.op = "generate"
    /\ client.provider = "openrouter"
    /\ transport = ConnectError
    /\ client.generated = Failed("exception")

\* no extraction strategy yields a JSON value from the text: not the direct
\* parse of the text without its fence, not the parse of its brace span
NotValidJson(text) ==
    LET content == strip_fence(Strip(text))
        span == brace_scan(content)
    IN /\ json_loads(content).outcome # "value"
       /\ span.ok => json_loads(span.val).outcome # "value"

\* C15: generate_json returns nothing, and neither raises nor returns an
\* object, for every response whose content is empty or is not valid JSON
\* after fence stripping, direct parse and brace scan.
C15_UnparseableIsNothing ==
    (client.called /\ client.op = "generate_json") =>
        LET content == client.generated.response.content
        IN (\/ ~success(client.generated.response)
            \/ content.t # "str"
            \/ NotValidJson(content.text)) =>
               /\ ~client.json.raised
               /\ ~client.json.some

(***************************************************************************)
(* Properties of prompt building (specification SpecPrompt).               *)
(***************************************************************************)
\* C16: for every input longer than its bound (stdout and stderr over 15,000
\* characters, hints and error message over 5,000), the text emitted for it
\* is strictly shorter than the input and holds a truncation marker.
C16_TruncationShortens ==
    prompts.built =>
        \A i \in DOMAIN prompts.sizes :
            prompts.sizes[i] > prompts.bounds[i] =>
                /\ prompts.emitted[i].length < prompts.sizes[i]
                /\ prompts.emitted[i].marker

(***************************************************************************)
(* Properties of the Run Ledger (specification SpecLedger).                *)
(***************************************************************************)
\* the results added under the name since the history was last cleared
AddedUnder(name) == {i \in 1..Len(db.results) : db.results[i].test_name.s = name}

\* C18: for every test name, total_runs is the number of results added under
\* the name since the last clear_history and failure_count the number of
\* those with status failed or error; failure_count <= total_runs.
C18_HistoryIsRunningAggregate ==
    /\ DOMAIN db.history = {db.results[i].test_name.s : i \in 1..Len(db.results)}
    /\ \A name \in DOMAIN db.history :
          /\ db.history[name].total_runs = Cardinality(AddedUnder(name))
          /\ db.history[name].failure_count =
                Cardinality({i \in AddedUnder(name) :
                                db.results[i].status \in {"failed", "error"}})
          /\ db.history[name].failure_count <= db.history[name].total_runs

\* C18 witness: three results were added under one name, one of them failed
\* and one in error, next to a result under another name.
C18_Witness ==
    /\ Len(db.results) = 4
    /\ "a" \in DOMAIN db.history
    /\ "b" \in DOMAIN db.history
    /\ db.history["a"].total_runs = 3
    /\ db.history["a"].failure_count = 2
    /\ \E i \in AddedUnder("a") : db.results[i].status = "error"
    /\ \E i \in AddedUnder("a") : db.results[i].status = "passed"

(***************************************************************************)
(* Further properties of the `run` command (specification SpecRun).        *)
(***************************************************************************)
\* C17: for every provider that the configuration accepts (ollama,
\* openrouter), the client that `run` builds for the parser and the analyzer
\* is the implementation of the configured provider.
C17_ProviderSelected ==
    run.llm_client # "none" => run.llm_client = ClientClass(run.provider)

(***************************************************************************)
(* Further properties of the classifier (specification Spec).              *)
(***************************************************************************)
\* C21: every outcome of an output returned by parse has an integer
\* duration_ms >= 0, whatever numeric duration (negative ones included) the
\* interpreter supplied for the item.
C21_DurationNonNegative ==
    last.called =>
        \A i \in DOMAIN last.res.out.tests :
            last.res.out.tests[i].duration_ms \in Nat

\* the count the summary block gives, or the default when it omits the field
Verbatim(field, default) == IF field.t = "missing" THEN default ELSE field

\* C22: on the interpreter path the aggregate counts are the summary block's
\* values as given, whatever the itemized outcomes are; an omitted total is
\* the number of outcomes, an omitted passed, failed or skipped is 0.
C22_SummaryVerbatim ==
    (last.called /\ last.res.via = "llm") =>
        LET o == last.res.out
            s == reply.summary
        IN /\ o.total = Verbatim(s.total, Num(Len(o.tests)))
           /\ o.passed = Verbatim(s.passed, Num(0))
           /\ o.failed = Verbatim(s.failed, Num(0))
           /\ o.skipped = Verbatim(s.skipped, Num(0))

\* C22 witness: the summary says 5 tests, one passed and one failed, while
\* the two itemized outcomes are both failed; the summary's counts are kept.
C22_Witness ==
    /\ last.called
    /\ last.res.via = "llm"
    /\ Len(last.res.out.tests) = 2
    /\ \A i \in 1..2 : last.res.out.tests[i].status = "failed"
    /\ reply.summary.t = "dict"
    /\ reply.summary.total = Num(5)
    /\ last.res.out.total = Num(5)
    /\ last.res.out.passed = Num(1)
    /\ last.res.out.skipped = Num(0)

\* C22 witness of the defaults: the summary is omitted, so the total is the
\* number of outcomes and the other counts are 0.
C22_WitnessOmitted ==
    /\ last.called
    /\ last.res.via = "llm"
    /\ reply.summary.t = "missing"
    /\ Len(last.res.out.tests) = 2
    /\ last.res.out.total = Num(2)
    /\ last.res.out.failed = Num(0)

(***************************************************************************)
(* Further properties of the correlator (specification SpecCorrelate).     *)
(***************************************************************************)
\* C25: a FailureAnalysis built from a structured result that omits the
\* confidence has confidence 0.5; an omitted suspected file or commit is
\* absent, an omitted explanation or suggested fix is the empty text.
C25_Defaults ==
    (corr.called /\ ~corr.raised) =>
        \A k \in 1..Len(corr.analyses) :
            LET r == corr.behaviours[corr.from[k]].response
                a == corr.analyses[k]
            IN /\ r.confidence.t = "missing" => a.confidence = 50
               /\ r.suspected_file.t = "missing" => a.suspected_file = Null
               /\ r.suspected_commit.t = "missing" => a.suspected_commit = Null
               /\ r.explanation.t = "missing" => a.explanation = Str("")
               /\ r.suggested_fix.t = "missing" => a.suggested_fix = Str("")

\* C25 witness: analyze returned the analysis of a structured result that
\* holds a likely cause and nothing else.
C25_Witness ==
    /\ corr.called
    /\ corr.op = "analyze"
    /\ Len(corr.analyses) = 1
    /\ corr.behaviours[1].response.confidence.t = "missing"
    /\ corr.behaviours[1].response.suspected_file.t = "missing"
    /\ corr.behaviours[1].response.explanation.t = "missing"
    /\ corr.analyses[1].likely_cause = Str("typo")
    /\ corr.analyses[1].confidence = 50
    /\ corr.analyses[1].suspected_file = Null
    /\ corr.analyses[1].explanation = Str("")

OccursAt(s, i, tok) ==
    IF IsWordChar(tok[1]) THEN MatchAt(s, i, tok)
    ELSE i <= Len(s) /\ s[i] = tok[1]

\* the number of tokens of the set in the text, counted from position i
RECURSIVE TokenCount(_, _, _)
TokenCount(s, i, tokens) ==
    IF i > Len(s) THEN 0
    ELSE LET hits == {j \in DOMAIN tokens : OccursAt(s, i, tokens[j])}
         IN IF hits = {} THEN TokenCount(s, i + 1, tokens)
            ELSE LET j == CHOOSE h \in hits : \A g \in hits : h <= g
                 IN 1 + TokenCount(s, i + Len(tokens[j]), tokens)

\* C24: a fallback output has no outcomes, duration_ms 0 and
\* total = passed + failed + skipped, where passed, failed and skipped are
\* the numbers of tokens of each status in stdout + "\n" + stderr (failed
\* being 1 under the forced-failure rule of C3).
C24_FallbackCounts ==
    (last.called /\ last.res.via = "fallback") =>
        LET o == last.res.out
            combined == stdout \o <<Newline>> \o stderr
            found == TokenCount(combined, 1, FailedTokens)
        IN /\ o.tests = << >>
           /\ o.duration_ms = Num(0)
           /\ o.total = Num(o.passed.n + o.failed.n + o.skipped.n)
           /\ o.passed = Num(TokenCount(combined, 1, PassedTokens))
           /\ o.skipped = Num(TokenCount(combined, 1, SkippedTokens))
           /\ o.failed = Num(IF found = 0 /\ exit_code # 0 THEN 1 ELSE found)

(***************************************************************************)
(* Further properties of the Gateway (specification SpecGateway).          *)
(***************************************************************************)
\* the position of the } that closes the { opened before position i, depth
\* braces being open at i; 0 when the text ends first
RECURSIVE ClosingBrace(_, _, _)
ClosingBrace(c, i, depth) ==
    IF i > Len(c) THEN 0
    ELSE IF c[i] = "}" THEN (IF depth = 1 THEN i ELSE ClosingBrace(c, i + 1, depth - 1))
    ELSE IF c[i] = "{" THEN ClosingBrace(c, i + 1, depth + 1)
    ELSE ClosingBrace(c, i + 1, depth)

\* the first balanced {...} span of the text
FirstBalancedSpan(c) ==
    LET opens == {i \in 1..Len(c) : c[i] = "{"}
    IN IF opens = {} THEN Raise
       ELSE LET i == CHOOSE i \in opens : \A k \in opens : i <= k
                j == ClosingBrace(c, i + 1, 1)
            IN IF j = 0 THEN Raise ELSE Ok(SubSeq(c, i, j))

\* C26: after the fence is stripped, a text that parses directly yields its
\* value; when the direct parse fails and the first balanced {...} span of
\* the text parses, generate_json returns the parse of that span (prose
\* around one object, or several objects separated by prose, yield the first
\* object).
C26_FirstBalancedSpan ==
    ( /\ client.called
      /\ client.op = "generate_json"
      /\ ~client.generated.raised
      /\ success(client.generated.response)
      /\ client.generated.response.content.t = "str" ) =>
        LET text == strip_fence(Strip(client.generated.response.content.text))
            direct == json_loads(text)
            span == FirstBalancedSpan(text)
        IN /\ direct.outcome = "value" => client.json = JsonSome(direct)
           /\ ( /\ direct.outcome = "JSONDecodeError"
                /\ span.ok
                /\ json_loads(span.val).outcome = "value" ) =>
                    client.json = JsonSome(json_loads(span.val))

\* C27: what generate_json returns is nothing or a JSON object, never a JSON
\* value of another kind.
C27_ObjectOrNothing ==
    (client.called /\ client.op = "generate_json" /\ client.json.some) =>
        client.json.value.kind = "dict"

(***************************************************************************)
(* Order and effects of the stages of `run` (specification SpecRun).       *)
(***************************************************************************)
\* the stage has finished
Finished(stage) == \E i \in DOMAIN run.events : run.events[i] = stage

\* stage a finished before stage b did
FinishedBefore(a, b) ==
    \E i, j \in DOMAIN run.events :
        i < j /\ run.events[i] = a /\ run.events[j] = b

Counts(o) == <<o.total, o.passed, o.failed, o.skipped>>

\* the way a call of parse came to the fallback: the probe answered no, the
\* interpreter gave no structured result, or an exception was handled
FallbackWay(call) ==
    IF ~call.available THEN "unavailable"
    ELSE IF call.gen = "none" THEN "nothing"
    ELSE "exception"

====
